---- MODULE Spec2Model ----
(***************************************************************************)
(* A model of the headless Vulkan compute harness of src/main.cpp: the     *)
(* capability verification, the queue-family selection, the two diagnostic *)
(* callbacks, RunComputeShader and main.  The Vulkan driver is the         *)
(* environment: each driver call is an action whose result is drawn from   *)
(* the results the driver may return.                                      *)
(***************************************************************************)
EXTENDS Integers, Sequences, FiniteSets

VARIABLES
    pc,                         \* position of the (single) harness thread
    exit,                       \* how the process ended, "running" until then
    calls,                      \* every call made so far, in order
    live,                       \* driver handles created and not yet destroyed
    badDestroy,                 \* a destroy call was given a handle that was not live
    requiredInstanceLayers,     \* static const vector, main.cpp:23
    requiredInstanceExtensions, \* static const vector, main.cpp:30
    available,                  \* names the driver enumerated at the last verification
    instanceLayersPresent,      \* main.cpp:540
    instanceExtensionsPresent,  \* main.cpp:541
    physicalDevices,            \* main.cpp:557: "nullptr", "allocated"
    physicalDeviceCount,        \* main.cpp:558
    physicalDevice0,            \* what physicalDevices[0] reads as: "unread", "valid", "garbage"
    families,                   \* queueFlags of the families the driver reported for that device
    queueFamilyProperties,      \* main.cpp:367: "none", "nullptr", "allocated"
    queueFamilyIndex,           \* main.cpp:561
    result,                     \* the VkResult of the last call that returns one
    run,                        \* 0 before the programs, then 1 (GLSL) and 2 (HLSL)
    commandBufferState,         \* "none", "initial", "recording", "executable", "pending", "invalid"
    pending,                    \* submissions handed to the queue and not yet waited for
    showOnlyDebugPrintf,        \* SHOW_ONLY_DEBUG_PRINTF_EXT_MESSAGES, main.cpp:9
    sinkCall,                   \* the arguments of the last callback invocation
    sinkOut,                    \* the lines that invocation wrote to std::cout
    sinkRet,                    \* what it returned to the driver
    inFlight,                   \* per driver thread, the invocation in progress on it
    delivered                   \* callback invocations the driver has begun

vars == <<pc, exit, calls, live, badDestroy, requiredInstanceLayers,
          requiredInstanceExtensions, available, instanceLayersPresent,
          instanceExtensionsPresent, physicalDevices, physicalDeviceCount,
          physicalDevice0, families, queueFamilyProperties,
          queueFamilyIndex, result, run,
          commandBufferState, pending, showOnlyDebugPrintf, sinkCall, sinkOut,
          sinkRet, inFlight, delivered>>

(***************************************************************************)
(* Bounds of the model.                                                    *)
(***************************************************************************)
\* longest list of required names and of enumerated names (SpecVerify)
MaxNames == 2
\* longest queue-family list given to GetBestComputeQueue alone (SpecSelect)
MaxFamilies == 3
\* longest queue-family list the driver reports inside a whole run (Spec)
MaxRunFamilies == 2
\* most physical devices the driver enumerates
MaxDevices == 2
\* most callback invocations the driver begins during one run (SpecAsync)
MaxSinkCalls == 2

(***************************************************************************)
(* Values of vulkan_core.h that the source names.                          *)
(***************************************************************************)
VK_QUEUE_GRAPHICS_BIT == 1
VK_QUEUE_COMPUTE_BIT == 2
VK_QUEUE_TRANSFER_BIT == 4
VK_QUEUE_SPARSE_BINDING_BIT == 8
VK_DEBUG_UTILS_MESSAGE_TYPE_GENERAL_BIT_EXT == 1
VK_DEBUG_UTILS_MESSAGE_TYPE_VALIDATION_BIT_EXT == 2
VK_DEBUG_UTILS_MESSAGE_TYPE_PERFORMANCE_BIT_EXT == 4
VK_DEBUG_UTILS_MESSAGE_SEVERITY_VERBOSE_BIT_EXT == 1
VK_DEBUG_UTILS_MESSAGE_SEVERITY_INFO_BIT_EXT == 16
VK_DEBUG_UTILS_MESSAGE_SEVERITY_WARNING_BIT_EXT == 256
VK_DEBUG_UTILS_MESSAGE_SEVERITY_ERROR_BIT_EXT == 4096
VK_DEBUG_REPORT_INFORMATION_BIT_EXT == 1
VK_DEBUG_REPORT_WARNING_BIT_EXT == 2
VK_DEBUG_REPORT_PERFORMANCE_WARNING_BIT_EXT == 4
VK_DEBUG_REPORT_ERROR_BIT_EXT == 8
VK_DEBUG_REPORT_DEBUG_BIT_EXT == 16
shader_local_size_x == 512

VK_SUCCESS == "VK_SUCCESS"
VK_INCOMPLETE == "VK_INCOMPLETE"
VK_ERROR_OUT_OF_HOST_MEMORY == "VK_ERROR_OUT_OF_HOST_MEMORY"
VK_ERROR_OUT_OF_DEVICE_MEMORY == "VK_ERROR_OUT_OF_DEVICE_MEMORY"
VK_ERROR_INITIALIZATION_FAILED == "VK_ERROR_INITIALIZATION_FAILED"
VK_ERROR_DEVICE_LOST == "VK_ERROR_DEVICE_LOST"
VK_ERROR_EXTENSION_NOT_PRESENT == "VK_ERROR_EXTENSION_NOT_PRESENT"
VK_ERROR_UNKNOWN == "VK_ERROR_UNKNOWN"
VK_FALSE == 0

\* what a driver call may return (one success code, two of its error codes)
DriverResults == {VK_SUCCESS, VK_ERROR_OUT_OF_HOST_MEMORY, VK_ERROR_DEVICE_LOST}

(***************************************************************************)
(* 32-bit flag arithmetic (VkFlags is uint32_t).                           *)
(***************************************************************************)
RECURSIVE BitAnd(_, _)
BitAnd(a, b) ==
    IF a = 0 \/ b = 0 THEN 0
    ELSE (a % 2) * (b % 2) + 2 * BitAnd(a \div 2, b \div 2)

BitOr(a, b) == a + b - BitAnd(a, b)

\* ~m & a, bit by bit: the same value at every width, so the 32-bit
\* complement itself is never formed
RECURSIVE BitAndNot(_, _)
BitAndNot(m, a) ==
    IF a = 0 THEN 0
    ELSE (a % 2) * (1 - (m % 2)) + 2 * BitAndNot(m \div 2, a \div 2)

(***************************************************************************)
(* Names: C strings, as the sequence of their characters before the NUL.   *)
(***************************************************************************)
VK_LAYER_KHRONOS_validation ==
    <<"V","K","_","L","A","Y","E","R","_","K","H","R","O","N","O","S","_",
      "v","a","l","i","d","a","t","i","o","n">>
VK_EXT_DEBUG_UTILS_EXTENSION_NAME ==
    <<"V","K","_","E","X","T","_","d","e","b","u","g","_","u","t","i","l","s">>
VK_EXT_DEBUG_REPORT_EXTENSION_NAME ==
    <<"V","K","_","E","X","T","_","d","e","b","u","g","_","r","e","p","o","r","t">>
\* names a driver could also enumerate: another case, a proper prefix
NameOtherCase ==
    <<"V","K","_","E","X","T","_","D","E","B","U","G","_","U","T","I","L","S">>
NamePrefix ==
    <<"V","K","_","E","X","T","_","d","e","b","u","g">>

\* the name of an entry the driver left zero-filled
NameEmpty == <<>>

NamePool ==
    {VK_LAYER_KHRONOS_validation, VK_EXT_DEBUG_UTILS_EXTENSION_NAME,
     VK_EXT_DEBUG_REPORT_EXTENSION_NAME, NameOtherCase, NamePrefix, NameEmpty}

\* every sequence over S of length at most n
SeqsUpTo(S, n) == UNION {[1..k -> S] : k \in 0..n}

Range(s) == {s[i] : i \in 1..Len(s)}

\* strcmp(a, b) as the code uses it: 0 when the strings are equal, not 0
\* otherwise.  The walk compares character by character up to the NUL.
RECURSIVE StrCmpFrom(_, _, _)
StrCmpFrom(a, b, i) ==
    IF i > Len(a) /\ i > Len(b) THEN 0
    ELSE IF i > Len(a) \/ i > Len(b) THEN 1
    ELSE IF a[i] # b[i] THEN 1
    ELSE StrCmpFrom(a, b, i + 1)

\* a comparison that stops at the end of the shorter argument
RECURSIVE StrCmpPrefixFrom(_, _, _)
StrCmpPrefixFrom(a, b, i) ==
    IF i > Len(a) \/ i > Len(b) THEN 0
    ELSE IF a[i] # b[i] THEN 1
    ELSE StrCmpPrefixFrom(a, b, i + 1)

strcmp_prefix(a, b) == StrCmpPrefixFrom(a, b, 1)

strcmp(a, b) == StrCmpFrom(a, b, 1)

\* the inner loop of main.cpp:178-185 (and 214-221), from element j on
RECURSIVE NameFound(_, _, _)
NameFound(name, availableNames, j) ==
    IF j > Len(availableNames) THEN FALSE
    ELSE IF strcmp(name, availableNames[j]) = 0 THEN TRUE
    ELSE NameFound(name, availableNames, j + 1)

\* the outer loop of main.cpp:174-191 (and 210-227), from element i on
RECURSIVE AllNamesFound(_, _, _)
AllNamesFound(required, availableNames, i) ==
    IF i > Len(required) THEN TRUE
    ELSE IF ~NameFound(required[i], availableNames, 1) THEN FALSE
    ELSE AllNamesFound(required, availableNames, i + 1)

VerifyInstanceLayers(required, availableLayers) ==
    IF Len(required) = 0 THEN TRUE
    ELSE AllNamesFound(required, availableLayers, 1)

VerifyInstanceExtensions(required, availableExtensions) ==
    IF Len(required) = 0 THEN TRUE
    ELSE AllNamesFound(required, availableExtensions, 1)

(***************************************************************************)
(* GetBestComputeQueue, main.cpp:362-402.  props is the array the driver   *)
(* filled, allocated says whether _malloca returned memory, index is the   *)
(* caller's queueFamilyIndex on entry.  Indices are the code's (from 0).   *)
(***************************************************************************)
MaskedFlags(queueFlags) ==
    BitAndNot(BitOr(VK_QUEUE_TRANSFER_BIT, VK_QUEUE_SPARSE_BINDING_BIT),
              queueFlags)

\* the test of the first loop, main.cpp:381
ComputeOnlyTest(maskedFlags) ==
    /\ BitAnd(VK_QUEUE_GRAPHICS_BIT, maskedFlags) = 0
    /\ BitAnd(VK_QUEUE_COMPUTE_BIT, maskedFlags) # 0

\* a fallback test that takes whatever family comes first
AnyComputeTest_AnyFamily(maskedFlags) == maskedFlags = maskedFlags

\* the test of the second loop, main.cpp:394
AnyComputeTest(maskedFlags) ==
    BitAnd(VK_QUEUE_COMPUTE_BIT, maskedFlags) # 0

\* first loop, main.cpp:376-386: the i it returns at, or -1 when it runs out
RECURSIVE ComputeOnlyLoop(_, _)
ComputeOnlyLoop(props, i) ==
    IF i >= Len(props) THEN -1
    ELSE IF ComputeOnlyTest(MaskedFlags(props[i + 1])) THEN i
    ELSE ComputeOnlyLoop(props, i + 1)

\* second loop, main.cpp:389-399
RECURSIVE AnyComputeLoop(_, _)
AnyComputeLoop(props, i) ==
    IF i >= Len(props) THEN -1
    ELSE IF AnyComputeTest(MaskedFlags(props[i + 1])) THEN i
    ELSE AnyComputeLoop(props, i + 1)

\* a selection that runs the fallback loop only
GetBestComputeQueue_NoTier1(props, allocated, index) ==
    IF ~allocated
    THEN [result |-> VK_ERROR_OUT_OF_DEVICE_MEMORY, queueFamilyIndex |-> index]
    ELSE IF AnyComputeLoop(props, 0) # -1
    THEN [result |-> VK_SUCCESS, queueFamilyIndex |-> AnyComputeLoop(props, 0)]
    ELSE [result |-> VK_ERROR_INITIALIZATION_FAILED, queueFamilyIndex |-> index]

GetBestComputeQueue(props, allocated, index) ==
    IF ~allocated
    THEN [result |-> VK_ERROR_OUT_OF_DEVICE_MEMORY, queueFamilyIndex |-> index]
    ELSE IF ComputeOnlyLoop(props, 0) # -1
    THEN [result |-> VK_SUCCESS, queueFamilyIndex |-> ComputeOnlyLoop(props, 0)]
    ELSE IF AnyComputeLoop(props, 0) # -1
    THEN [result |-> VK_SUCCESS, queueFamilyIndex |-> AnyComputeLoop(props, 0)]
    ELSE [result |-> VK_ERROR_INITIALIZATION_FAILED, queueFamilyIndex |-> index]

(***************************************************************************)
(* The two diagnostic callbacks.  filtered is the value of the macro       *)
(* SHOW_ONLY_DEBUG_PRINTF_EXT_MESSAGES the file was compiled with.  Each   *)
(* returns what it hands back to the driver and the lines it wrote.        *)
(***************************************************************************)
\* the switch of main.cpp:66-93
SeverityTag(messageSeverity) ==
    CASE messageSeverity = VK_DEBUG_UTILS_MESSAGE_SEVERITY_VERBOSE_BIT_EXT -> "[VERBOSE]"
      [] messageSeverity = VK_DEBUG_UTILS_MESSAGE_SEVERITY_INFO_BIT_EXT -> "[INFO]   "
      [] messageSeverity = VK_DEBUG_UTILS_MESSAGE_SEVERITY_WARNING_BIT_EXT -> "[WARNING]"
      [] messageSeverity = VK_DEBUG_UTILS_MESSAGE_SEVERITY_ERROR_BIT_EXT -> "[ERROR]  "
      [] OTHER -> "[UNKNOWN]"

DebugLine(messageSeverity, messageType, pMessage) ==
    [channel |-> "[VULKAN DEBUG]", tag |-> SeverityTag(messageSeverity),
     flags |-> messageType, layer |-> <<>>, message |-> pMessage]

\* a filter that tests the validation bit instead of comparing the whole value
VulkanDebugCallback_BitTest(filtered, messageSeverity, messageType, pMessage) ==
    IF filtered /\ BitAnd(VK_DEBUG_UTILS_MESSAGE_TYPE_VALIDATION_BIT_EXT, messageType) = 0
    THEN [ret |-> VK_FALSE, out |-> <<>>]
    ELSE [ret |-> VK_FALSE,
          out |-> <<DebugLine(messageSeverity, messageType, pMessage)>>]

VulkanDebugCallback(filtered, messageSeverity, messageType, pMessage) ==
    IF filtered /\ VK_DEBUG_UTILS_MESSAGE_TYPE_VALIDATION_BIT_EXT # messageType
    THEN [ret |-> VK_FALSE, out |-> <<>>]
    ELSE [ret |-> VK_FALSE,
          out |-> <<DebugLine(messageSeverity, messageType, pMessage)>>]

\* whether pattern stands in text at position pos (from 1)
RECURSIVE MatchAt(_, _, _, _)
MatchAt(text, pattern, pos, k) ==
    IF k > Len(pattern) THEN TRUE
    ELSE IF pos + k - 1 > Len(text) THEN FALSE
    ELSE IF text[pos + k - 1] # pattern[k] THEN FALSE
    ELSE MatchAt(text, pattern, pos, k + 1)

\* std::string::find(pattern): the first position (from 0), or -1 for npos
RECURSIVE FindFrom(_, _, _)
FindFrom(text, pattern, pos) ==
    IF pos - 1 + Len(pattern) > Len(text) THEN -1
    ELSE IF MatchAt(text, pattern, pos, 1) THEN pos - 1
    ELSE FindFrom(text, pattern, pos + 1)

\* a search that looks for the pattern at the start of the text only
StringFind_AtStart(text, pattern) ==
    IF MatchAt(text, pattern, 1, 1) THEN 0 ELSE -1

StringFind(text, pattern) == FindFrom(text, pattern, 1)

LiteralValidation == <<"V","a","l","i","d","a","t","i","o","n">>

ReportLine(flags, pLayerPrefix, pMessage) ==
    [channel |-> "[VULKAN REPORT]", tag |-> "", flags |-> flags,
     layer |-> pLayerPrefix, message |-> pMessage]

\* a callback that tells the driver it handled the message it logged
VulkanReportCallback_HandledWhenLogged(filtered, flags, pLayerPrefix, pMessage) ==
    IF filtered /\ VK_DEBUG_REPORT_INFORMATION_BIT_EXT # flags
    THEN [ret |-> VK_FALSE, out |-> <<>>]
    ELSE IF filtered /\ StringFind(pMessage, LiteralValidation) = -1
    THEN [ret |-> VK_FALSE, out |-> <<>>]
    ELSE [ret |-> VK_FALSE + 1,
          out |-> <<ReportLine(flags, pLayerPrefix, pMessage)>>]

VulkanReportCallback(filtered, flags, pLayerPrefix, pMessage) ==
    IF filtered /\ VK_DEBUG_REPORT_INFORMATION_BIT_EXT # flags
    THEN [ret |-> VK_FALSE, out |-> <<>>]
    ELSE IF filtered /\ StringFind(pMessage, LiteralValidation) = -1
    THEN [ret |-> VK_FALSE, out |-> <<>>]
    ELSE [ret |-> VK_FALSE, out |-> <<ReportLine(flags, pLayerPrefix, pMessage)>>]

(***************************************************************************)
(* State shared by the specifications.                                     *)
(***************************************************************************)
QueueFlagValues ==
    0..(VK_QUEUE_GRAPHICS_BIT + VK_QUEUE_COMPUTE_BIT + VK_QUEUE_TRANSFER_BIT
        + VK_QUEUE_SPARSE_BINDING_BIT)

\* the flag words the driver reports inside a whole run: TRANSFER and
\* SPARSE_BINDING, both masked off at main.cpp:379, are left to SpecSelect
RunQueueFlagValues == 0..(VK_QUEUE_GRAPHICS_BIT + VK_QUEUE_COMPUTE_BIT)

\* the outcomes of _malloca at main.cpp:367: a request of no bytes is
\* served from the stack and is never null
ScratchAllocations(props) == IF Len(props) = 0 THEN {TRUE} ELSE BOOLEAN

Call(op, arg) == [op |-> op, run |-> run, arg |-> arg]

\* a call of RunComputeShader whose VkResult the function tests
CallRet(op, arg, r) == [op |-> op, run |-> run, arg |-> arg, ret |-> r]

\* the sizes in bytes of the program files readFile finds, main.cpp:151
FileSizes == {4, 8}

\* the threads of the driver that may call a registered callback
SinkThreads == {"driver thread 1", "driver thread 2"}

NoInvocation == [sink |-> "none"]

sinkVars == <<showOnlyDebugPrintf, sinkCall, sinkOut, sinkRet, inFlight, delivered>>
constVars == <<requiredInstanceLayers, requiredInstanceExtensions>>
verifyVars == <<available, instanceLayersPresent, instanceExtensionsPresent>>
deviceVars == <<physicalDevices, physicalDeviceCount, physicalDevice0, families,
                queueFamilyProperties, queueFamilyIndex>>
runVars == <<run, commandBufferState, pending>>
handleVars == <<live, badDestroy>>

\* the state main() starts in, but for the required names and the macro
InitCommon ==
    /\ exit = "running"
    /\ calls = <<>>
    /\ live = {}
    /\ badDestroy = FALSE
    /\ available = <<>>
    /\ instanceLayersPresent = FALSE
    /\ instanceExtensionsPresent = FALSE
    /\ physicalDevices = "nullptr"
    /\ physicalDeviceCount = 0
    /\ physicalDevice0 = "unread"
    /\ families = <<>>
    /\ queueFamilyProperties = "none"
    /\ result = "none"
    /\ run = 0
    /\ commandBufferState = "none"
    /\ pending = 0
    /\ sinkCall = [sink |-> "none"]
    /\ sinkOut = <<>>
    /\ sinkRet = VK_FALSE
    /\ inFlight = [t \in SinkThreads |-> NoInvocation]
    /\ delivered = 0

\* the driver calls VerifyInstanceLayers makes, main.cpp:163-172
LayerEnumerationCalls ==
    IF Len(requiredInstanceLayers) = 0 THEN <<>>
    ELSE <<Call("vkEnumerateInstanceLayerProperties", <<>>),
           Call("vkEnumerateInstanceLayerProperties", <<>>)>>

\* the driver calls VerifyInstanceExtensions makes, main.cpp:199-208
ExtensionEnumerationCalls ==
    IF Len(requiredInstanceExtensions) = 0 THEN <<>>
    ELSE <<Call("vkEnumerateInstanceExtensionProperties", <<>>),
           Call("vkEnumerateInstanceExtensionProperties", <<>>)>>

(***************************************************************************)
(* SpecVerify: one call of VerifyInstanceLayers or VerifyInstanceExtensions*)
(* with any required list and any enumeration answer.                      *)
(***************************************************************************)
InitVerify ==
    /\ InitCommon
    /\ pc \in {"VerifyInstanceLayers", "VerifyInstanceExtensions"}
    /\ requiredInstanceLayers \in SeqsUpTo(NamePool, MaxNames)
    /\ requiredInstanceExtensions = requiredInstanceLayers
    /\ queueFamilyIndex = 0
    /\ showOnlyDebugPrintf = TRUE

VerifyLayersCall ==
    /\ pc = "VerifyInstanceLayers"
    /\ \E availableLayers \in SeqsUpTo(NamePool, MaxNames) :
        /\ available' = IF Len(requiredInstanceLayers) = 0 THEN available
                        ELSE availableLayers
        /\ instanceLayersPresent' =
               VerifyInstanceLayers(requiredInstanceLayers, availableLayers)
    /\ calls' = calls \o LayerEnumerationCalls
    /\ pc' = "VerifyInstanceLayers_returned"
    /\ UNCHANGED <<exit, handleVars, constVars, instanceExtensionsPresent,
                   deviceVars, result, runVars, sinkVars>>

VerifyExtensionsCall ==
    /\ pc = "VerifyInstanceExtensions"
    /\ \E availableExtensions \in SeqsUpTo(NamePool, MaxNames) :
        /\ available' = IF Len(requiredInstanceExtensions) = 0 THEN available
                        ELSE availableExtensions
        /\ instanceExtensionsPresent' =
               VerifyInstanceExtensions(requiredInstanceExtensions, availableExtensions)
    /\ calls' = calls \o ExtensionEnumerationCalls
    /\ pc' = "VerifyInstanceExtensions_returned"
    /\ UNCHANGED <<exit, handleVars, constVars, instanceLayersPresent,
                   deviceVars, result, runVars, sinkVars>>

NextVerify == VerifyLayersCall \/ VerifyExtensionsCall

SpecVerify == InitVerify /\ [][NextVerify]_vars

(***************************************************************************)
(* SpecSelect: one call of GetBestComputeQueue with any family list, any   *)
(* outcome of the scratch allocation and two values of the index on entry. *)
(***************************************************************************)
InitSelect ==
    /\ InitCommon
    /\ pc = "GetBestComputeQueue"
    /\ requiredInstanceLayers = <<VK_LAYER_KHRONOS_validation>>
    /\ requiredInstanceExtensions =
           <<VK_EXT_DEBUG_UTILS_EXTENSION_NAME, VK_EXT_DEBUG_REPORT_EXTENSION_NAME>>
    /\ queueFamilyIndex \in {0, MaxFamilies + 1}
    /\ showOnlyDebugPrintf = TRUE

\* the whole of GetBestComputeQueue(physicalDevices[deviceIndex], index) on
\* a device whose families are props
SelectOn(deviceIndex, props, allocated) ==
    /\ families' = props
    /\ queueFamilyProperties' = IF allocated THEN "allocated" ELSE "nullptr"
    /\ queueFamilyIndex' =
           GetBestComputeQueue(props, allocated, queueFamilyIndex).queueFamilyIndex
    /\ result' = GetBestComputeQueue(props, allocated, queueFamilyIndex).result
    /\ calls' = calls
           \o <<Call("GetBestComputeQueue", <<deviceIndex, queueFamilyIndex>>),
                Call("vkGetPhysicalDeviceQueueFamilyProperties", <<>>)>>
           \o (IF allocated
               THEN <<Call("vkGetPhysicalDeviceQueueFamilyProperties", <<>>)>>
               ELSE <<>>)

SelectCall ==
    /\ pc = "GetBestComputeQueue"
    /\ \E props \in SeqsUpTo(QueueFlagValues, MaxFamilies) :
        \E allocated \in ScratchAllocations(props) :
            SelectOn(0, props, allocated)
    /\ pc' = "GetBestComputeQueue_returned"
    /\ UNCHANGED <<exit, handleVars, constVars, verifyVars, physicalDevices,
                   physicalDeviceCount, physicalDevice0, runVars, sinkVars>>

NextSelect == SelectCall

SpecSelect == InitSelect /\ [][NextSelect]_vars

(***************************************************************************)
(* SpecSink: the driver delivers one message to one of the two callbacks,  *)
(* in a build with the filter and in a build without it.                   *)
(***************************************************************************)
MessageSeverities ==
    {0, VK_DEBUG_UTILS_MESSAGE_SEVERITY_VERBOSE_BIT_EXT,
     VK_DEBUG_UTILS_MESSAGE_SEVERITY_INFO_BIT_EXT,
     VK_DEBUG_UTILS_MESSAGE_SEVERITY_WARNING_BIT_EXT,
     VK_DEBUG_UTILS_MESSAGE_SEVERITY_ERROR_BIT_EXT,
     VK_DEBUG_UTILS_MESSAGE_SEVERITY_ERROR_BIT_EXT + 1}

MessageTypes ==
    0..(VK_DEBUG_UTILS_MESSAGE_TYPE_GENERAL_BIT_EXT
        + VK_DEBUG_UTILS_MESSAGE_TYPE_VALIDATION_BIT_EXT
        + VK_DEBUG_UTILS_MESSAGE_TYPE_PERFORMANCE_BIT_EXT)

ReportFlags ==
    0..(VK_DEBUG_REPORT_INFORMATION_BIT_EXT + VK_DEBUG_REPORT_WARNING_BIT_EXT
        + VK_DEBUG_REPORT_PERFORMANCE_WARNING_BIT_EXT
        + VK_DEBUG_REPORT_ERROR_BIT_EXT + VK_DEBUG_REPORT_DEBUG_BIT_EXT)

MessageTexts ==
    {<<>>,
     LiteralValidation,
     LiteralValidation \o <<" ","h","i">>,
     <<"x",":"," ">> \o LiteralValidation \o <<" ","5","1","2">>,
     <<"v","a","l","i","d","a","t","i","o","n">>,
     <<"V","a","l","i","d","a","t","i","o">>,
     <<"V","a","l","i","d","V","a","l","i","d","a","t","i","o","n">>}

InitSink ==
    /\ InitCommon
    /\ pc = "registered"
    /\ requiredInstanceLayers = <<VK_LAYER_KHRONOS_validation>>
    /\ requiredInstanceExtensions =
           <<VK_EXT_DEBUG_UTILS_EXTENSION_NAME, VK_EXT_DEBUG_REPORT_EXTENSION_NAME>>
    /\ queueFamilyIndex = 0
    /\ showOnlyDebugPrintf \in BOOLEAN

DebugMessage ==
    /\ pc = "registered"
    /\ \E messageSeverity \in MessageSeverities, messageType \in MessageTypes,
          pMessage \in MessageTexts :
        /\ sinkCall' = [sink |-> "VulkanDebugCallback",
                        messageSeverity |-> messageSeverity,
                        messageType |-> messageType, pMessage |-> pMessage]
        /\ sinkOut' = VulkanDebugCallback(showOnlyDebugPrintf, messageSeverity,
                                          messageType, pMessage).out
        /\ sinkRet' = VulkanDebugCallback(showOnlyDebugPrintf, messageSeverity,
                                          messageType, pMessage).ret
    /\ UNCHANGED <<pc, exit, calls, handleVars, constVars, verifyVars, deviceVars,
                   result, runVars, showOnlyDebugPrintf, inFlight, delivered>>

ReportMessage ==
    /\ pc = "registered"
    /\ \E flags \in ReportFlags, pMessage \in MessageTexts :
        /\ sinkCall' = [sink |-> "VulkanReportCallback", flags |-> flags,
                        pLayerPrefix |-> <<"V","V","L">>, pMessage |-> pMessage]
        /\ sinkOut' = VulkanReportCallback(showOnlyDebugPrintf, flags,
                                           <<"V","V","L">>, pMessage).out
        /\ sinkRet' = VulkanReportCallback(showOnlyDebugPrintf, flags,
                                           <<"V","V","L">>, pMessage).ret
    /\ UNCHANGED <<pc, exit, calls, handleVars, constVars, verifyVars, deviceVars,
                   result, runVars, showOnlyDebugPrintf, inFlight, delivered>>

NextSink == DebugMessage \/ ReportMessage

SpecSink == InitSink /\ [][NextSink]_vars

(***************************************************************************)
(* Spec: main(), main.cpp:536-585, with RunComputeShader stepped one       *)
(* driver call at a time.  EXIT_ON_BAD_RESULT (main.cpp:6) is part of the  *)
(* statement it wraps.  pc names the source line about to execute.         *)
(***************************************************************************)
Init ==
    /\ InitCommon
    /\ pc = "main_540"
    /\ requiredInstanceLayers = <<VK_LAYER_KHRONOS_validation>>
    /\ requiredInstanceExtensions =
           <<VK_EXT_DEBUG_UTILS_EXTENSION_NAME, VK_EXT_DEBUG_REPORT_EXTENSION_NAME>>
    /\ queueFamilyIndex = 0
    /\ showOnlyDebugPrintf = TRUE

\* a check that reports nothing and goes on
ExitOnBadResult_GoOn(r, next) == pc' = next /\ exit' = exit

\* EXIT_ON_BAD_RESULT(r), then the statement at next
ExitOnBadResult(r, next) ==
    IF VK_SUCCESS # r
    THEN pc' = "ended" /\ exit' = "exit_failure"
    ELSE pc' = next /\ exit' = exit

\* the process is killed by a fault (a null or wild pointer is used)
Crash == pc' = "ended" /\ exit' = "crash"

Create(handle) == live' = live \cup {handle} /\ badDestroy' = badDestroy

Destroy(handle) ==
    /\ live' = live \ {handle}
    /\ badDestroy' = (badDestroy \/ handle \notin live)

\* main.cpp:540
MainVerifyInstanceLayers ==
    /\ pc = "main_540"
    /\ \E availableLayers \in SeqsUpTo(NamePool, MaxNames) :
        instanceLayersPresent' =
            VerifyInstanceLayers(requiredInstanceLayers, availableLayers)
    /\ calls' = calls \o <<Call("VerifyInstanceLayers", <<>>)>> \o LayerEnumerationCalls
    /\ pc' = "main_541"
    /\ UNCHANGED <<exit, handleVars, constVars, available, instanceExtensionsPresent,
                   deviceVars, result, runVars, sinkVars>>

\* main.cpp:541
MainVerifyInstanceExtensions ==
    /\ pc = "main_541"
    /\ \E availableExtensions \in SeqsUpTo(NamePool, MaxNames) :
        instanceExtensionsPresent' =
            VerifyInstanceExtensions(requiredInstanceExtensions, availableExtensions)
    /\ calls' = calls \o <<Call("VerifyInstanceExtensions", <<>>)>>
                      \o ExtensionEnumerationCalls
    /\ pc' = "main_543"
    /\ UNCHANGED <<exit, handleVars, constVars, available, instanceLayersPresent,
                   deviceVars, result, runVars, sinkVars>>

\* a check that looks at the layers only
MainCheckCapabilities_LayersOnly ==
    /\ pc = "main_543"
    /\ IF ~instanceLayersPresent
       THEN pc' = "ended" /\ exit' = "return_1"
       ELSE pc' = "main_549" /\ exit' = exit
    /\ UNCHANGED <<calls, handleVars, constVars, verifyVars, deviceVars, result,
                   runVars, sinkVars>>

\* main.cpp:543-546
MainCheckCapabilities ==
    /\ pc = "main_543"
    /\ IF ~instanceLayersPresent \/ ~instanceExtensionsPresent
       THEN pc' = "ended" /\ exit' = "return_1"
       ELSE pc' = "main_549" /\ exit' = exit
    /\ UNCHANGED <<calls, handleVars, constVars, verifyVars, deviceVars, result,
                   runVars, sinkVars>>

\* main.cpp:548-549 with CreateHeadlessVulkanInstance, main.cpp:233-263
MainCreateInstance ==
    /\ pc = "main_549"
    /\ \E r \in DriverResults :
        /\ result' = r
        /\ IF r = VK_SUCCESS THEN Create("instance") ELSE UNCHANGED handleVars
        /\ ExitOnBadResult(r, "main_552")
    /\ calls' = calls \o <<Call("CreateHeadlessVulkanInstance", <<>>),
                           Call("vkCreateInstance", <<>>)>>
    /\ UNCHANGED <<constVars, verifyVars, deviceVars, runVars, sinkVars>>

\* a registration that takes an unresolved entry point for "nothing to do"
RegisterSink_Optional(function, entryPoint, handle, next) ==
    \E resolved \in BOOLEAN, r \in DriverResults :
        IF resolved
        THEN /\ result' = r
             /\ IF r = VK_SUCCESS THEN Create(handle) ELSE UNCHANGED handleVars
             /\ calls' = calls \o <<Call(function, <<>>),
                                    Call("vkGetInstanceProcAddr", <<>>),
                                    Call(entryPoint, <<>>)>>
             /\ ExitOnBadResult(r, next)
        ELSE /\ result' = VK_SUCCESS
             /\ UNCHANGED handleVars
             /\ calls' = calls \o <<Call(function, <<>>),
                                    Call("vkGetInstanceProcAddr", <<>>)>>
             /\ ExitOnBadResult(VK_SUCCESS, next)

\* a registration that calls the entry point without testing it
RegisterSink_CallsNull(function, entryPoint, handle, next) ==
    \E resolved \in BOOLEAN, r \in DriverResults :
        IF resolved
        THEN /\ result' = r
             /\ IF r = VK_SUCCESS THEN Create(handle) ELSE UNCHANGED handleVars
             /\ calls' = calls \o <<Call(function, <<>>),
                                    Call("vkGetInstanceProcAddr", <<>>),
                                    Call(entryPoint, <<>>)>>
             /\ ExitOnBadResult(r, next)
        ELSE /\ UNCHANGED <<result, handleVars>>
             /\ calls' = calls \o <<Call(function, <<>>),
                                    Call("vkGetInstanceProcAddr", <<>>),
                                    Call("nullptr", <<>>)>>
             /\ Crash

\* CreateDebugMessenger / CreateReportCallback from the entry-point lookup
\* on, main.cpp:283-292 and 320-329
RegisterSink(function, entryPoint, handle, next) ==
    \E resolved \in BOOLEAN, r \in DriverResults :
        IF resolved
        THEN /\ result' = r
             /\ IF r = VK_SUCCESS THEN Create(handle) ELSE UNCHANGED handleVars
             /\ calls' = calls \o <<Call(function, <<>>),
                                    Call("vkGetInstanceProcAddr", <<>>),
                                    Call(entryPoint, <<>>)>>
             /\ ExitOnBadResult(r, next)
        ELSE /\ result' = VK_ERROR_EXTENSION_NOT_PRESENT
             /\ UNCHANGED handleVars
             /\ calls' = calls \o <<Call(function, <<>>),
                                    Call("vkGetInstanceProcAddr", <<>>)>>
             /\ ExitOnBadResult(VK_ERROR_EXTENSION_NOT_PRESENT, next)

\* main.cpp:551-552 with CreateDebugMessenger, main.cpp:266-293
MainCreateDebugMessenger ==
    /\ pc = "main_552"
    /\ IF "instance" \notin live
       THEN /\ result' = VK_ERROR_UNKNOWN
            /\ UNCHANGED handleVars
            /\ calls' = calls \o <<Call("CreateDebugMessenger", <<>>)>>
            /\ ExitOnBadResult(VK_ERROR_UNKNOWN, "main_555")
       ELSE RegisterSink("CreateDebugMessenger", "vkCreateDebugUtilsMessengerEXT",
                         "debugMessenger", "main_555")
    /\ UNCHANGED <<constVars, verifyVars, deviceVars, runVars, sinkVars>>

\* main.cpp:554-555 with CreateReportCallback, main.cpp:309-330
MainCreateReportCallback ==
    /\ pc = "main_555"
    /\ RegisterSink("CreateReportCallback", "vkCreateDebugReportCallbackEXT",
                    "reportCallback", "main_559")
    /\ UNCHANGED <<constVars, verifyVars, deviceVars, runVars, sinkVars>>

\* an enumeration that reports an empty answer as a failure
MainEnumerateDevices_EmptyIsError ==
    /\ pc = "main_559"
    /\ \E r1 \in DriverResults :
        IF VK_SUCCESS # r1
        THEN /\ result' = r1
             /\ calls' = calls \o <<Call("EnumerateDevices", <<>>),
                                    CallRet("vkEnumeratePhysicalDevices", <<>>, r1)>>
             /\ UNCHANGED <<physicalDevices, physicalDeviceCount>>
             /\ ExitOnBadResult(r1, "main_562")
        ELSE \E device_count \in 0..MaxDevices, mallocated \in BOOLEAN,
                r2 \in DriverResults \cup {VK_INCOMPLETE} :
             /\ physicalDeviceCount' = device_count
             /\ physicalDevices' = IF mallocated THEN "allocated" ELSE "nullptr"
             /\ result' = IF device_count = 0 /\ r2 = VK_SUCCESS
                           THEN VK_ERROR_INITIALIZATION_FAILED ELSE r2
             /\ calls' = calls \o <<Call("EnumerateDevices", <<>>),
                                    CallRet("vkEnumeratePhysicalDevices", <<>>, r1),
                                    CallRet("vkEnumeratePhysicalDevices", <<>>, r2)>>
             /\ ExitOnBadResult(IF device_count = 0 /\ r2 = VK_SUCCESS
                                THEN VK_ERROR_INITIALIZATION_FAILED ELSE r2,
                                "main_562")
    /\ UNCHANGED <<handleVars, constVars, verifyVars, physicalDevice0, families,
                   queueFamilyProperties, queueFamilyIndex, runVars, sinkVars>>

\* main.cpp:557-559 with EnumerateDevices, main.cpp:346-359
MainEnumerateDevices ==
    /\ pc = "main_559"
    /\ \E r1 \in DriverResults :
        IF VK_SUCCESS # r1
        THEN /\ result' = r1
             /\ calls' = calls \o <<Call("EnumerateDevices", <<>>),
                                    CallRet("vkEnumeratePhysicalDevices", <<>>, r1)>>
             /\ UNCHANGED <<physicalDevices, physicalDeviceCount>>
             /\ ExitOnBadResult(r1, "main_562")
        ELSE \E device_count \in 0..MaxDevices, mallocated \in BOOLEAN,
                r2 \in DriverResults \cup {VK_INCOMPLETE} :
             /\ physicalDeviceCount' = device_count
             /\ physicalDevices' = IF mallocated THEN "allocated" ELSE "nullptr"
             /\ result' = r2
             /\ calls' = calls \o <<Call("EnumerateDevices", <<>>),
                                    CallRet("vkEnumeratePhysicalDevices", <<>>, r1),
                                    CallRet("vkEnumeratePhysicalDevices", <<>>, r2)>>
             /\ ExitOnBadResult(r2, "main_562")
    /\ UNCHANGED <<handleVars, constVars, verifyVars, physicalDevice0, families,
                   queueFamilyProperties, queueFamilyIndex, runVars, sinkVars>>

\* main.cpp:561-562 with GetBestComputeQueue, main.cpp:362-402.  The read
\* of physicalDevices[0] is defined only when the array holds a device.
MainGetBestComputeQueue ==
    /\ pc = "main_562"
    /\ \/ /\ physicalDevices = "allocated" /\ physicalDeviceCount >= 1
          /\ physicalDevice0' = "valid"
          /\ \E props \in SeqsUpTo(RunQueueFlagValues, MaxRunFamilies) :
              \E allocated \in ScratchAllocations(props) :
              /\ SelectOn(0, props, allocated)
              /\ ExitOnBadResult(
                     GetBestComputeQueue(props, allocated, queueFamilyIndex).result,
                     "main_565")
       \/ /\ physicalDevices = "allocated" /\ physicalDeviceCount = 0
          /\ physicalDevice0' = "garbage"
          /\ \E props \in SeqsUpTo(RunQueueFlagValues, MaxRunFamilies) :
              \E allocated \in ScratchAllocations(props) :
              /\ SelectOn(0, props, allocated)
              /\ ExitOnBadResult(
                     GetBestComputeQueue(props, allocated, queueFamilyIndex).result,
                     "main_565")
       \/ /\ ~(physicalDevices = "allocated" /\ physicalDeviceCount >= 1)
          /\ Crash
          /\ UNCHANGED <<physicalDevice0, families, queueFamilyProperties,
                         queueFamilyIndex, result, calls>>
    /\ UNCHANGED <<handleVars, constVars, verifyVars, physicalDevices,
                   physicalDeviceCount, runVars, sinkVars>>

\* main.cpp:564-565 with CreateDevice, main.cpp:405-420
MainCreateDevice ==
    /\ pc = "main_565"
    /\ \/ \E r \in DriverResults :
            /\ result' = r
            /\ IF r = VK_SUCCESS THEN Create("device") ELSE UNCHANGED handleVars
            /\ calls' = calls \o <<Call("CreateDevice", <<queueFamilyIndex>>),
                                   Call("vkCreateDevice", <<queueFamilyIndex>>)>>
            /\ ExitOnBadResult(r, "main_568")
       \/ /\ physicalDevice0 = "garbage"
          /\ Crash
          /\ UNCHANGED <<result, handleVars, calls>>
    /\ UNCHANGED <<constVars, verifyVars, deviceVars, runVars, sinkVars>>

\* main.cpp:568 and 572 with readFile, main.cpp:144-158: the file opens, or
\* the exception it throws ends the process
MainReadFile ==
    /\ pc \in {"main_568", "main_572"}
    /\ \E opened \in BOOLEAN, fileSize \in FileSizes :
        IF opened
        THEN /\ run' = run + 1
             /\ pc' = "rcs_434"
             /\ exit' = exit
             /\ calls' = calls \o <<[op |-> "readFile", run |-> run + 1,
                                      arg |-> <<fileSize>>]>>
        ELSE /\ run' = run
             /\ pc' = "ended"
             /\ exit' = "terminate"
             /\ calls' = calls \o <<[op |-> "readFile", run |-> run + 1,
                                      arg |-> <<>>]>>
    /\ UNCHANGED <<handleVars, constVars, verifyVars, deviceVars, result,
                   commandBufferState, pending, sinkVars>>

(***************************************************************************)
(* RunComputeShader, main.cpp:424-534.  A failing call returns its result  *)
(* at once (pc "rcs_return"); main checks it at main.cpp:569 and 573.      *)
(***************************************************************************)
\* a create step that reports every failure as VK_ERROR_UNKNOWN
RcsCreate_ReturnsUnknown(op, arg, handle, next) ==
    \E r \in DriverResults :
        /\ result' = IF r = VK_SUCCESS THEN r ELSE VK_ERROR_UNKNOWN
        /\ IF r = VK_SUCCESS
           THEN Create(handle) /\ pc' = next
           ELSE UNCHANGED handleVars /\ pc' = "rcs_return"
        /\ calls' = calls \o <<CallRet(op, arg, r)>>

\* a driver call that creates handle: on success go on at next
RcsCreate(op, arg, handle, next) ==
    \E r \in DriverResults :
        /\ result' = r
        /\ IF r = VK_SUCCESS
           THEN Create(handle) /\ pc' = next
           ELSE UNCHANGED handleVars /\ pc' = "rcs_return"
        /\ calls' = calls \o <<CallRet(op, arg, r)>>

\* main.cpp:424-438: shaderCode is the buffer readFile returned just before
RcsCreateShaderModule ==
    /\ pc = "rcs_434"
    /\ \E r \in DriverResults :
        /\ result' = r
        /\ IF r = VK_SUCCESS
           THEN Create("shaderModule") /\ pc' = "rcs_444"
           ELSE UNCHANGED handleVars /\ pc' = "rcs_return"
        /\ calls' = calls
               \o <<Call("RunComputeShader", <<queueFamilyIndex>>),
                    CallRet("vkCreateShaderModule", calls[Len(calls)].arg, r)>>
    /\ UNCHANGED <<exit, constVars, verifyVars, deviceVars, runVars, sinkVars>>

\* main.cpp:440-448
RcsCreatePipelineLayout ==
    /\ pc = "rcs_444"
    /\ RcsCreate("vkCreatePipelineLayout", <<>>, "pipelineLayout", "rcs_459")
    /\ UNCHANGED <<exit, constVars, verifyVars, deviceVars, runVars, sinkVars>>

\* main.cpp:450-463
RcsCreateComputePipelines ==
    /\ pc = "rcs_459"
    /\ RcsCreate("vkCreateComputePipelines", <<>>, "pipeline", "rcs_470")
    /\ UNCHANGED <<exit, constVars, verifyVars, deviceVars, runVars, sinkVars>>

\* main.cpp:465-474
RcsCreateCommandPool ==
    /\ pc = "rcs_470"
    /\ RcsCreate("vkCreateCommandPool", <<queueFamilyIndex>>, "commandPool", "rcs_483")
    /\ UNCHANGED <<exit, constVars, verifyVars, deviceVars, runVars, sinkVars>>

\* main.cpp:476-487
RcsAllocateCommandBuffers ==
    /\ pc = "rcs_483"
    /\ \E r \in DriverResults :
        /\ result' = r
        /\ IF r = VK_SUCCESS
           THEN /\ Create("commandBuffer")
                /\ commandBufferState' = "initial"
                /\ pc' = "rcs_493"
           ELSE /\ UNCHANGED <<handleVars, commandBufferState>>
                /\ pc' = "rcs_return"
        /\ calls' = calls \o <<CallRet("vkAllocateCommandBuffers", <<>>, r)>>
    /\ UNCHANGED <<exit, constVars, verifyVars, deviceVars, run, pending, sinkVars>>

\* main.cpp:489-497
RcsBeginCommandBuffer ==
    /\ pc = "rcs_493"
    /\ \E r \in DriverResults :
        /\ result' = r
        /\ IF r = VK_SUCCESS
           THEN commandBufferState' = "recording" /\ pc' = "rcs_499"
           ELSE UNCHANGED commandBufferState /\ pc' = "rcs_return"
        /\ calls' = calls \o <<CallRet("vkBeginCommandBuffer", <<>>, r)>>
    /\ UNCHANGED <<exit, handleVars, constVars, verifyVars, deviceVars, run,
                   pending, sinkVars>>

\* main.cpp:499
RcsCmdBindPipeline ==
    /\ pc = "rcs_499"
    /\ calls' = calls \o <<Call("vkCmdBindPipeline", <<>>)>>
    /\ pc' = "rcs_500"
    /\ UNCHANGED <<exit, handleVars, constVars, verifyVars, deviceVars, result,
                   runVars, sinkVars>>

\* a dispatch of as many workgroups as the program has bytes
RcsCmdDispatch_BySize ==
    /\ pc = "rcs_500"
    /\ \E i \in 1..Len(calls) :
        /\ calls[i].op = "readFile" /\ calls[i].run = run
        /\ calls' = calls \o <<Call("vkCmdDispatch", <<calls[i].arg[1], 1, 1>>)>>
    /\ pc' = "rcs_501"
    /\ UNCHANGED <<exit, handleVars, constVars, verifyVars, deviceVars, result,
                   runVars, sinkVars>>

\* main.cpp:500
RcsCmdDispatch ==
    /\ pc = "rcs_500"
    /\ calls' = calls \o <<Call("vkCmdDispatch", <<shader_local_size_x, 1, 1>>)>>
    /\ pc' = "rcs_501"
    /\ UNCHANGED <<exit, handleVars, constVars, verifyVars, deviceVars, result,
                   runVars, sinkVars>>

\* main.cpp:501-505
RcsEndCommandBuffer ==
    /\ pc = "rcs_501"
    /\ \E r \in DriverResults :
        /\ result' = r
        /\ IF r = VK_SUCCESS
           THEN commandBufferState' = "executable" /\ pc' = "rcs_508"
           ELSE commandBufferState' = "invalid" /\ pc' = "rcs_return"
        /\ calls' = calls \o <<CallRet("vkEndCommandBuffer", <<>>, r)>>
    /\ UNCHANGED <<exit, handleVars, constVars, verifyVars, deviceVars, run,
                   pending, sinkVars>>

\* main.cpp:507-508
RcsGetDeviceQueue ==
    /\ pc = "rcs_508"
    /\ calls' = calls \o <<Call("vkGetDeviceQueue", <<queueFamilyIndex, 0>>)>>
    /\ pc' = "rcs_515"
    /\ UNCHANGED <<exit, handleVars, constVars, verifyVars, deviceVars, result,
                   runVars, sinkVars>>

\* a submission followed by the teardown at once, without the wait
RcsQueueSubmit_NoWait ==
    /\ pc = "rcs_515"
    /\ \E r \in DriverResults :
        /\ result' = r
        /\ IF r = VK_SUCCESS
           THEN /\ commandBufferState' = "pending"
                /\ pending' = pending + 1
                /\ pc' = "rcs_527"
           ELSE /\ UNCHANGED <<commandBufferState, pending>>
                /\ pc' = "rcs_return"
        /\ calls' = calls \o <<CallRet("vkQueueSubmit", <<>>, r)>>
    /\ UNCHANGED <<exit, handleVars, constVars, verifyVars, deviceVars, run, sinkVars>>

\* main.cpp:510-519
RcsQueueSubmit ==
    /\ pc = "rcs_515"
    /\ \E r \in DriverResults :
        /\ result' = r
        /\ IF r = VK_SUCCESS
           THEN /\ commandBufferState' = "pending"
                /\ pending' = pending + 1
                /\ pc' = "rcs_521"
           ELSE /\ UNCHANGED <<commandBufferState, pending>>
                /\ pc' = "rcs_return"
        /\ calls' = calls \o <<CallRet("vkQueueSubmit", <<>>, r)>>
    /\ UNCHANGED <<exit, handleVars, constVars, verifyVars, deviceVars, run, sinkVars>>

\* a wait whose success path skips the release of the command buffer
RcsQueueWaitIdle_SkipFree ==
    /\ pc = "rcs_521"
    /\ \E r \in DriverResults :
        /\ result' = r
        /\ IF r = VK_SUCCESS
           THEN /\ commandBufferState' = "invalid"
                /\ pending' = 0
                /\ pc' = "rcs_528"
           ELSE /\ UNCHANGED <<commandBufferState, pending>>
                /\ pc' = "rcs_return"
        /\ calls' = calls \o <<CallRet("vkQueueWaitIdle", <<>>, r)>>
    /\ UNCHANGED <<exit, handleVars, constVars, verifyVars, deviceVars, run, sinkVars>>

\* main.cpp:521-525
RcsQueueWaitIdle ==
    /\ pc = "rcs_521"
    /\ \E r \in DriverResults :
        /\ result' = r
        /\ IF r = VK_SUCCESS
           THEN /\ commandBufferState' = "invalid"
                /\ pending' = 0
                /\ pc' = "rcs_527"
           ELSE /\ UNCHANGED <<commandBufferState, pending>>
                /\ pc' = "rcs_return"
        /\ calls' = calls \o <<CallRet("vkQueueWaitIdle", <<>>, r)>>
    /\ UNCHANGED <<exit, handleVars, constVars, verifyVars, deviceVars, run, sinkVars>>

\* a driver call that destroys handle
RcsDestroy(op, handle, next) ==
    /\ Destroy(handle)
    /\ calls' = calls \o <<Call(op, <<>>)>>
    /\ pc' = next

\* main.cpp:527
RcsFreeCommandBuffers ==
    /\ pc = "rcs_527"
    /\ RcsDestroy("vkFreeCommandBuffers", "commandBuffer", "rcs_528")
    /\ commandBufferState' = "none"
    /\ UNCHANGED <<exit, constVars, verifyVars, deviceVars, result, run, pending,
                   sinkVars>>

\* main.cpp:528
RcsDestroyCommandPool ==
    /\ pc = "rcs_528"
    /\ RcsDestroy("vkDestroyCommandPool", "commandPool", "rcs_529")
    /\ UNCHANGED <<exit, constVars, verifyVars, deviceVars, result, runVars, sinkVars>>

\* main.cpp:529
RcsDestroyPipeline ==
    /\ pc = "rcs_529"
    /\ RcsDestroy("vkDestroyPipeline", "pipeline", "rcs_530")
    /\ UNCHANGED <<exit, constVars, verifyVars, deviceVars, result, runVars, sinkVars>>

\* main.cpp:530
RcsDestroyPipelineLayout ==
    /\ pc = "rcs_530"
    /\ RcsDestroy("vkDestroyPipelineLayout", "pipelineLayout", "rcs_531")
    /\ UNCHANGED <<exit, constVars, verifyVars, deviceVars, result, runVars, sinkVars>>

\* main.cpp:531-533
RcsDestroyShaderModule ==
    /\ pc = "rcs_531"
    /\ RcsDestroy("vkDestroyShaderModule", "shaderModule", "rcs_return")
    /\ UNCHANGED <<exit, constVars, verifyVars, deviceVars, result, runVars, sinkVars>>

\* a check of the program's result that goes on to the cleanup of main
\* when the program failed
MainCheckRun_CleanupOnFailure ==
    /\ pc = "rcs_return"
    /\ IF VK_SUCCESS # result
       THEN pc' = "main_577" /\ exit' = exit
       ELSE pc' = (IF run = 1 THEN "main_572" ELSE "main_577") /\ exit' = exit
    /\ UNCHANGED <<calls, handleVars, constVars, verifyVars, deviceVars, result,
                   runVars, sinkVars>>

\* a check of the program's result that runs one program only
MainCheckRun_OneProgram ==
    /\ pc = "rcs_return"
    /\ ExitOnBadResult(result, "main_577")
    /\ UNCHANGED <<calls, handleVars, constVars, verifyVars, deviceVars, result,
                   runVars, sinkVars>>

\* EXIT_ON_BAD_RESULT of main.cpp:569 and 573 on the returned result
MainCheckRun ==
    /\ pc = "rcs_return"
    /\ ExitOnBadResult(result, IF run = 1 THEN "main_572" ELSE "main_577")
    /\ UNCHANGED <<calls, handleVars, constVars, verifyVars, deviceVars, result,
                   runVars, sinkVars>>

\* a cleanup that forgets the device
MainDestroyDevice_Forgotten ==
    /\ pc = "main_577"
    /\ pc' = "main_579"
    /\ UNCHANGED <<exit, calls, handleVars, constVars, verifyVars, deviceVars,
                   result, runVars, sinkVars>>

\* main.cpp:577
MainDestroyDevice ==
    /\ pc = "main_577"
    /\ Destroy("device")
    /\ calls' = calls \o <<Call("vkDestroyDevice", <<>>)>>
    /\ pc' = "main_579"
    /\ UNCHANGED <<exit, constVars, verifyVars, deviceVars, result, runVars, sinkVars>>

\* DestroyDebugMessenger / DestroyReportCallback, main.cpp:296-306 and
\* 333-343: nothing for a null handle; else the entry point is looked up
\* and called, and an unresolved (null) entry point is called all the same
UnregisterSink(function, entryPoint, handle, next) ==
    IF "instance" \notin live \/ handle \notin live
    THEN /\ calls' = calls \o <<Call(function, <<>>)>>
         /\ pc' = next /\ exit' = exit
         /\ UNCHANGED handleVars
    ELSE \E resolved \in BOOLEAN :
        IF resolved
        THEN /\ Destroy(handle)
             /\ calls' = calls \o <<Call(function, <<>>),
                                    Call("vkGetInstanceProcAddr", <<>>),
                                    Call(entryPoint, <<>>)>>
             /\ pc' = next /\ exit' = exit
        ELSE /\ UNCHANGED handleVars
             /\ calls' = calls \o <<Call(function, <<>>),
                                    Call("vkGetInstanceProcAddr", <<>>),
                                    Call("nullptr", <<>>)>>
             /\ Crash

\* main.cpp:579
MainDestroyDebugMessenger ==
    /\ pc = "main_579"
    /\ UnregisterSink("DestroyDebugMessenger", "vkDestroyDebugUtilsMessengerEXT",
                      "debugMessenger", "main_580")
    /\ UNCHANGED <<constVars, verifyVars, deviceVars, result, runVars, sinkVars>>

\* main.cpp:580
MainDestroyReportCallback ==
    /\ pc = "main_580"
    /\ UnregisterSink("DestroyReportCallback", "vkDestroyDebugReportCallbackEXT",
                      "reportCallback", "main_582")
    /\ UNCHANGED <<constVars, verifyVars, deviceVars, result, runVars, sinkVars>>

\* main.cpp:582
MainDestroyInstance ==
    /\ pc = "main_582"
    /\ Destroy("instance")
    /\ calls' = calls \o <<Call("vkDestroyInstance", <<>>)>>
    /\ pc' = "main_584"
    /\ UNCHANGED <<exit, constVars, verifyVars, deviceVars, result, runVars, sinkVars>>

\* main.cpp:584
MainReturn ==
    /\ pc = "main_584"
    /\ pc' = "ended"
    /\ exit' = "return_0"
    /\ UNCHANGED <<calls, handleVars, constVars, verifyVars, deviceVars, result,
                   runVars, sinkVars>>

Next ==
    \/ MainVerifyInstanceLayers
    \/ MainVerifyInstanceExtensions
    \/ MainCheckCapabilities
    \/ MainCreateInstance
    \/ MainCreateDebugMessenger
    \/ MainCreateReportCallback
    \/ MainEnumerateDevices
    \/ MainGetBestComputeQueue
    \/ MainCreateDevice
    \/ MainReadFile
    \/ RcsCreateShaderModule
    \/ RcsCreatePipelineLayout
    \/ RcsCreateComputePipelines
    \/ RcsCreateCommandPool
    \/ RcsAllocateCommandBuffers
    \/ RcsBeginCommandBuffer
    \/ RcsCmdBindPipeline
    \/ RcsCmdDispatch
    \/ RcsEndCommandBuffer
    \/ RcsGetDeviceQueue
    \/ RcsQueueSubmit
    \/ RcsQueueWaitIdle
    \/ RcsFreeCommandBuffers
    \/ RcsDestroyCommandPool
    \/ RcsDestroyPipeline
    \/ RcsDestroyPipelineLayout
    \/ RcsDestroyShaderModule
    \/ MainCheckRun
    \/ MainDestroyDevice
    \/ MainDestroyDebugMessenger
    \/ MainDestroyReportCallback
    \/ MainDestroyInstance
    \/ MainReturn

Spec == Init /\ [][Next]_vars

(***************************************************************************)
(* SpecAsync: main() as in Spec, and the driver calling the two registered *)
(* callbacks from its own threads while main runs.  An invocation begins   *)
(* (the driver calls the function) and ends (the function returns) in two  *)
(* steps, so that invocations overlap each other and the steps of main.    *)
(* The driver's messages are followed in the runs with at most one device, *)
(* one queue family and program files of the first size.                   *)
(***************************************************************************)
mainVars == <<pc, exit, calls, handleVars, constVars, verifyVars, deviceVars,
              result, runVars>>

ObservedRun ==
    /\ physicalDeviceCount <= 1
    /\ physicalDevice0 # "garbage"
    /\ Len(families) <= 1
    /\ \A i \in 1..Len(calls) :
        calls[i].op = "readFile" => calls[i].arg # <<8>>

\* the messages the driver hands to the callbacks
AsyncMessages ==
    {[sink |-> "VulkanDebugCallback",
      messageSeverity |-> VK_DEBUG_UTILS_MESSAGE_SEVERITY_INFO_BIT_EXT,
      messageType |-> messageType,
      pMessage |-> LiteralValidation] :
        messageType \in {VK_DEBUG_UTILS_MESSAGE_TYPE_VALIDATION_BIT_EXT,
                         VK_DEBUG_UTILS_MESSAGE_TYPE_GENERAL_BIT_EXT}}
    \cup
    {[sink |-> "VulkanReportCallback", flags |-> flags,
      pLayerPrefix |-> <<"V","V","L">>, pMessage |-> LiteralValidation] :
        flags \in {VK_DEBUG_REPORT_INFORMATION_BIT_EXT, VK_DEBUG_REPORT_ERROR_BIT_EXT}}

\* the handle whose registration makes the driver call the callback
SinkHandle(message) ==
    IF message.sink = "VulkanDebugCallback" THEN "debugMessenger" ELSE "reportCallback"

\* the callback applied to the arguments of an invocation
SinkBody(message) ==
    IF message.sink = "VulkanDebugCallback"
    THEN VulkanDebugCallback(showOnlyDebugPrintf, message.messageSeverity,
                             message.messageType, message.pMessage)
    ELSE VulkanReportCallback(showOnlyDebugPrintf, message.flags,
                              message.pLayerPrefix, message.pMessage)

\* the driver calls a registered callback on thread t
SinkEnter(t) ==
    /\ exit = "running"
    /\ inFlight[t] = NoInvocation
    /\ delivered < MaxSinkCalls
    /\ \E message \in AsyncMessages :
        /\ SinkHandle(message) \in live
        /\ inFlight' = [inFlight EXCEPT ![t] = message]
    /\ delivered' = delivered + 1
    /\ UNCHANGED <<mainVars, showOnlyDebugPrintf, sinkCall, sinkOut, sinkRet>>

\* a callback that ends the process when it is handed an error report
SinkReturn_ExitsOnError(t) ==
    /\ exit = "running"
    /\ inFlight[t] # NoInvocation
    /\ sinkCall' = inFlight[t]
    /\ sinkOut' = SinkBody(inFlight[t]).out
    /\ sinkRet' = SinkBody(inFlight[t]).ret
    /\ inFlight' = [inFlight EXCEPT ![t] = NoInvocation]
    /\ IF /\ inFlight[t].sink = "VulkanReportCallback"
          /\ inFlight[t].flags = VK_DEBUG_REPORT_ERROR_BIT_EXT
       THEN /\ pc' = "ended"
            /\ exit' = "exit_failure"
            /\ UNCHANGED <<calls, handleVars, constVars, verifyVars, deviceVars,
                           result, runVars>>
       ELSE UNCHANGED mainVars
    /\ UNCHANGED <<showOnlyDebugPrintf, delivered>>

\* the body of the callback, main.cpp:50-97 or 119-140, runs on thread t and
\* returns to the driver
SinkReturn(t) ==
    /\ exit = "running"
    /\ inFlight[t] # NoInvocation
    /\ sinkCall' = inFlight[t]
    /\ sinkOut' = SinkBody(inFlight[t]).out
    /\ sinkRet' = SinkBody(inFlight[t]).ret
    /\ inFlight' = [inFlight EXCEPT ![t] = NoInvocation]
    /\ UNCHANGED <<mainVars, showOnlyDebugPrintf, delivered>>

\* the steps of main in an observed run, and the steps of the driver's threads
NextAsync ==
    \/ MainVerifyInstanceLayers /\ ObservedRun'
    \/ MainVerifyInstanceExtensions /\ ObservedRun'
    \/ MainCheckCapabilities /\ ObservedRun'
    \/ MainCreateInstance /\ ObservedRun'
    \/ MainCreateDebugMessenger /\ ObservedRun'
    \/ MainCreateReportCallback /\ ObservedRun'
    \/ MainEnumerateDevices /\ ObservedRun'
    \/ MainGetBestComputeQueue /\ ObservedRun'
    \/ MainCreateDevice /\ ObservedRun'
    \/ MainReadFile /\ ObservedRun'
    \/ RcsCreateShaderModule /\ ObservedRun'
    \/ RcsCreatePipelineLayout /\ ObservedRun'
    \/ RcsCreateComputePipelines /\ ObservedRun'
    \/ RcsCreateCommandPool /\ ObservedRun'
    \/ RcsAllocateCommandBuffers /\ ObservedRun'
    \/ RcsBeginCommandBuffer /\ ObservedRun'
    \/ RcsCmdBindPipeline /\ ObservedRun'
    \/ RcsCmdDispatch /\ ObservedRun'
    \/ RcsEndCommandBuffer /\ ObservedRun'
    \/ RcsGetDeviceQueue /\ ObservedRun'
    \/ RcsQueueSubmit /\ ObservedRun'
    \/ RcsQueueWaitIdle /\ ObservedRun'
    \/ RcsFreeCommandBuffers /\ ObservedRun'
    \/ RcsDestroyCommandPool /\ ObservedRun'
    \/ RcsDestroyPipeline /\ ObservedRun'
    \/ RcsDestroyPipelineLayout /\ ObservedRun'
    \/ RcsDestroyShaderModule /\ ObservedRun'
    \/ MainCheckRun /\ ObservedRun'
    \/ MainDestroyDevice /\ ObservedRun'
    \/ MainDestroyDebugMessenger /\ ObservedRun'
    \/ MainDestroyReportCallback /\ ObservedRun'
    \/ MainDestroyInstance /\ ObservedRun'
    \/ MainReturn /\ ObservedRun'
    \/ \E t \in SinkThreads : SinkEnter(t)
    \/ \E t \in SinkThreads : SinkReturn(t)

SpecAsync == Init /\ [][NextAsync]_vars

(***************************************************************************)
(* Properties.  What a flag word or a name list means is stated here       *)
(* without the code's arithmetic: a bit by division, a list by its set.    *)
(***************************************************************************)
HasBit(flags, bit) == (flags \div bit) % 2 = 1

Min(S) == CHOOSE x \in S : \A y \in S : x <= y

IsPrefix(s, t) == Len(s) <= Len(t) /\ \A i \in 1..Len(s) : s[i] = t[i]

Ops(s) == [i \in 1..Len(s) |-> s[i].op]

\* the indices (from 0) of the families with COMPUTE and without GRAPHICS
ComputeOnlyFamilies(props) ==
    {i \in 0..(Len(props) - 1) :
        HasBit(props[i + 1], VK_QUEUE_COMPUTE_BIT)
        /\ ~HasBit(props[i + 1], VK_QUEUE_GRAPHICS_BIT)}

\* the indices (from 0) of the families with COMPUTE
ComputeFamilies(props) ==
    {i \in 0..(Len(props) - 1) : HasBit(props[i + 1], VK_QUEUE_COMPUTE_BIT)}

\* the value of queueFamilyIndex when GetBestComputeQueue was entered
IndexOnEntry == calls[1].arg[2]

\* the selection the specification describes, for the families reported
TieredSelection ==
    IF ComputeOnlyFamilies(families) # {}
    THEN result = VK_SUCCESS /\ queueFamilyIndex = Min(ComputeOnlyFamilies(families))
    ELSE IF ComputeFamilies(families) # {}
    THEN result = VK_SUCCESS /\ queueFamilyIndex = Min(ComputeFamilies(families))
    ELSE result = VK_ERROR_INITIALIZATION_FAILED /\ queueFamilyIndex = IndexOnEntry

\* C1 as stated: for every family list GetBestComputeQueue returns the
\* lowest COMPUTE-without-GRAPHICS index, else the lowest COMPUTE index,
\* else 'initialization failed' with the index unchanged.
C1_SelectionAsStated ==
    pc = "GetBestComputeQueue_returned" => TieredSelection

\* C1 (amended): when the scratch array for the family properties was
\* allocated, GetBestComputeQueue returns the lowest COMPUTE-without-GRAPHICS
\* index (TRANSFER and SPARSE_BINDING ignored), else the lowest COMPUTE
\* index, else 'initialization failed' with the index unchanged; when the
\* allocation failed it returns 'out of device memory' with the index
\* unchanged, whatever the families are.
C1_Selection ==
    pc = "GetBestComputeQueue_returned" =>
        IF queueFamilyProperties = "nullptr"
        THEN result = VK_ERROR_OUT_OF_DEVICE_MEMORY /\ queueFamilyIndex = IndexOnEntry
        ELSE TieredSelection

\* the first example of the specification: [{GRAPHICS}, {COMPUTE},
\* {COMPUTE, GRAPHICS}] gives index 1, entered with another index
C1_Witness ==
    /\ pc = "GetBestComputeQueue_returned"
    /\ families = <<VK_QUEUE_GRAPHICS_BIT, VK_QUEUE_COMPUTE_BIT,
                    VK_QUEUE_COMPUTE_BIT + VK_QUEUE_GRAPHICS_BIT>>
    /\ queueFamilyProperties = "allocated"
    /\ IndexOnEntry # 1
    /\ result = VK_SUCCESS
    /\ queueFamilyIndex = 1

\* C2: VerifyInstanceLayers / VerifyInstanceExtensions return true exactly
\* when every required name is, character for character, one of the
\* enumerated names, whatever the order of either list; with no required
\* name they return true and make no enumeration call.
C2_Verification ==
    /\ pc = "VerifyInstanceLayers_returned" =>
        /\ instanceLayersPresent = (Range(requiredInstanceLayers) \subseteq Range(available))
        /\ requiredInstanceLayers = <<>> => instanceLayersPresent /\ calls = <<>>
        /\ requiredInstanceLayers # <<>> =>
               Ops(calls) = <<"vkEnumerateInstanceLayerProperties",
                              "vkEnumerateInstanceLayerProperties">>
    /\ pc = "VerifyInstanceExtensions_returned" =>
        /\ instanceExtensionsPresent =
               (Range(requiredInstanceExtensions) \subseteq Range(available))
        /\ requiredInstanceExtensions = <<>> => instanceExtensionsPresent /\ calls = <<>>
        /\ requiredInstanceExtensions # <<>> =>
               Ops(calls) = <<"vkEnumerateInstanceExtensionProperties",
                              "vkEnumerateInstanceExtensionProperties">>

\* both extension names required, enumerated in the other order: true
C2_Witness ==
    /\ pc = "VerifyInstanceExtensions_returned"
    /\ requiredInstanceExtensions =
           <<VK_EXT_DEBUG_UTILS_EXTENSION_NAME, VK_EXT_DEBUG_REPORT_EXTENSION_NAME>>
    /\ available =
           <<VK_EXT_DEBUG_REPORT_EXTENSION_NAME, VK_EXT_DEBUG_UTILS_EXTENSION_NAME>>
    /\ instanceExtensionsPresent

\* C10: VulkanDebugCallback in the filtered build writes the message exactly
\* when its type flags equal VALIDATION and nothing else, whatever the
\* severity; in the show-all build it writes every message.
C10_SeverityFilter ==
    sinkCall.sink = "VulkanDebugCallback" =>
        IF showOnlyDebugPrintf
           /\ sinkCall.messageType # VK_DEBUG_UTILS_MESSAGE_TYPE_VALIDATION_BIT_EXT
        THEN sinkOut = <<>>
        ELSE /\ Len(sinkOut) = 1
             /\ sinkOut[1].channel = "[VULKAN DEBUG]"
             /\ sinkOut[1].flags = sinkCall.messageType
             /\ sinkOut[1].message = sinkCall.pMessage

\* filtered build, VALIDATION together with GENERAL: dropped
C10_Witness ==
    /\ sinkCall.sink = "VulkanDebugCallback"
    /\ showOnlyDebugPrintf
    /\ sinkCall.messageType = VK_DEBUG_UTILS_MESSAGE_TYPE_VALIDATION_BIT_EXT
                              + VK_DEBUG_UTILS_MESSAGE_TYPE_GENERAL_BIT_EXT
    /\ sinkCall.messageSeverity = 0
    /\ sinkOut = <<>>

\* pattern stands somewhere in text
Contains(text, pattern) ==
    \E i \in 1..(Len(text) - Len(pattern) + 1) :
        SubSeq(text, i, i + Len(pattern) - 1) = pattern

\* C11: VulkanReportCallback in the filtered build writes the message
\* exactly when its flags equal INFORMATION and nothing else and its text
\* contains "Validation" (anywhere, in that spelling); a message failing
\* either condition is dropped; in the show-all build it writes every
\* message.
C11_FlagFilter ==
    sinkCall.sink = "VulkanReportCallback" =>
        IF showOnlyDebugPrintf
           /\ ~(/\ sinkCall.flags = VK_DEBUG_REPORT_INFORMATION_BIT_EXT
                /\ Contains(sinkCall.pMessage, LiteralValidation))
        THEN sinkOut = <<>>
        ELSE /\ Len(sinkOut) = 1
             /\ sinkOut[1].channel = "[VULKAN REPORT]"
             /\ sinkOut[1].flags = sinkCall.flags
             /\ sinkOut[1].layer = sinkCall.pLayerPrefix
             /\ sinkOut[1].message = sinkCall.pMessage

\* filtered build, INFORMATION, "Validation" in the middle of the text:
\* written
C11_Witness ==
    /\ sinkCall.sink = "VulkanReportCallback"
    /\ showOnlyDebugPrintf
    /\ sinkCall.flags = VK_DEBUG_REPORT_INFORMATION_BIT_EXT
    /\ Contains(sinkCall.pMessage, LiteralValidation)
    /\ SubSeq(sinkCall.pMessage, 1, Len(LiteralValidation)) # LiteralValidation
    /\ Len(sinkOut) = 1

\* C12: every call of either callback, written or dropped, filtered build
\* or show-all build, returns VK_FALSE to the driver and leaves the process
\* running.
C12_Unhandled ==
    sinkCall.sink # "none" =>
        /\ sinkRet = VK_FALSE
        /\ exit = "running"
        /\ pc = "registered"

\* show-all build: an ERROR report was written and VK_FALSE returned
C12_Witness ==
    /\ sinkCall.sink = "VulkanReportCallback"
    /\ ~showOnlyDebugPrintf
    /\ sinkCall.flags = VK_DEBUG_REPORT_ERROR_BIT_EXT
    /\ Len(sinkOut) = 1
    /\ sinkRet = VK_FALSE

(***************************************************************************)
(* The call sequence of a run in which nothing fails.                      *)
(***************************************************************************)
SetupOps ==
    <<"VerifyInstanceLayers", "vkEnumerateInstanceLayerProperties",
      "vkEnumerateInstanceLayerProperties", "VerifyInstanceExtensions",
      "vkEnumerateInstanceExtensionProperties",
      "vkEnumerateInstanceExtensionProperties",
      "CreateHeadlessVulkanInstance", "vkCreateInstance",
      "CreateDebugMessenger", "vkGetInstanceProcAddr",
      "vkCreateDebugUtilsMessengerEXT",
      "CreateReportCallback", "vkGetInstanceProcAddr",
      "vkCreateDebugReportCallbackEXT",
      "EnumerateDevices", "vkEnumeratePhysicalDevices", "vkEnumeratePhysicalDevices",
      "GetBestComputeQueue", "vkGetPhysicalDeviceQueueFamilyProperties",
      "vkGetPhysicalDeviceQueueFamilyProperties",
      "CreateDevice", "vkCreateDevice">>

BuildDispatchOps ==
    <<"readFile", "RunComputeShader", "vkCreateShaderModule",
      "vkCreatePipelineLayout", "vkCreateComputePipelines", "vkCreateCommandPool",
      "vkAllocateCommandBuffers", "vkBeginCommandBuffer", "vkCmdBindPipeline",
      "vkCmdDispatch", "vkEndCommandBuffer", "vkGetDeviceQueue", "vkQueueSubmit",
      "vkQueueWaitIdle">>

TeardownOps ==
    <<"vkFreeCommandBuffers", "vkDestroyCommandPool", "vkDestroyPipeline",
      "vkDestroyPipelineLayout", "vkDestroyShaderModule">>

CleanupOps ==
    <<"vkDestroyDevice",
      "DestroyDebugMessenger", "vkGetInstanceProcAddr",
      "vkDestroyDebugUtilsMessengerEXT",
      "DestroyReportCallback", "vkGetInstanceProcAddr",
      "vkDestroyDebugReportCallbackEXT",
      "vkDestroyInstance">>

Tagged(ops, k) == [i \in 1..Len(ops) |-> <<ops[i], k>>]

\* each call with the program it belongs to (0: none; the cleanup of main
\* comes after the second program)
ExpectedCalls ==
    Tagged(SetupOps, 0) \o Tagged(BuildDispatchOps \o TeardownOps, 1)
    \o Tagged(BuildDispatchOps \o TeardownOps, 2) \o Tagged(CleanupOps, 2)

OpRuns(s) == [i \in 1..Len(s) |-> <<s[i].op, s[i].run>>]

CallsOf(op) == {i \in 1..Len(calls) : calls[i].op = op}

Called(op) == CallsOf(op) # {}

\* C3: in a run in which no step fails the harness makes its calls once
\* each in the order verify, create instance, register both sinks,
\* enumerate, select on physicalDevices[0], create device, the whole first
\* program, the whole second program, destroy device, unregister both
\* sinks, destroy instance; at every point of such a run the calls made are
\* an initial part of that sequence.
C3_Sequence ==
    /\ exit = "running" => IsPrefix(OpRuns(calls), ExpectedCalls)
    /\ exit = "return_0" =>
        /\ OpRuns(calls) = ExpectedCalls
        /\ \A i \in CallsOf("GetBestComputeQueue") : calls[i].arg[1] = 0

C3_Witness ==
    /\ exit = "return_0"
    /\ Len(calls) = Len(ExpectedCalls)
    /\ live = {}

VerificationOps ==
    {"VerifyInstanceLayers", "vkEnumerateInstanceLayerProperties",
     "VerifyInstanceExtensions", "vkEnumerateInstanceExtensionProperties"}

OnlyVerificationDone ==
    /\ \A i \in 1..Len(calls) : calls[i].op \in VerificationOps
    /\ live = {}

\* C4: nothing is created before both verifications have run; when either
\* returned false the process ends with return code 1 having created
\* nothing; the instance is created only when both returned true.
C4_VerifyFirst ==
    /\ pc \in {"main_540", "main_541", "main_543"} => OnlyVerificationDone
    /\ (pc \notin {"main_540", "main_541", "main_543"}
        /\ ~(instanceLayersPresent /\ instanceExtensionsPresent)) =>
           pc = "ended" /\ exit = "return_1" /\ OnlyVerificationDone
    /\ (Called("vkCreateInstance") \/ live # {}) =>
           instanceLayersPresent /\ instanceExtensionsPresent

\* the layer is there, an extension is not: return code 1, nothing created
C4_Witness ==
    /\ exit = "return_1"
    /\ instanceLayersPresent
    /\ ~instanceExtensionsPresent
    /\ live = {}

Failed == result # "none" /\ result # VK_SUCCESS

\* the calls main makes only after both programs have run
CleanupOnlyOps == Range(CleanupOps) \ {"vkGetInstanceProcAddr"}

FailFastState ==
    /\ Failed =>
        \/ pc = "ended" /\ exit = "exit_failure" /\ ~ENABLED Next
        \/ pc = "rcs_return" /\ exit = "running"
    /\ exit = "exit_failure" =>
        /\ Failed
        /\ IsPrefix(OpRuns(calls), ExpectedCalls)
        /\ \A i \in 1..Len(calls) : calls[i].op \notin CleanupOnlyOps
    /\ exit = "return_0" => (~Failed /\ OpRuns(calls) = ExpectedCalls)

FailFastStep ==
    (pc = "rcs_return" /\ Failed) =>
        (pc' = "ended" /\ exit' = "exit_failure" /\ calls' = calls /\ live' = live)

\* C5: once a step after the verification has returned a result other than
\* success the process ends with exit(EXIT_FAILURE) and nothing further is
\* called: not the next step, not the cleanup of main, not the step again
\* (a failing RunComputeShader first returns its result to main, which
\* exits on it without another call); return code 0 is reached only with
\* every step having succeeded.
C5_FailFast == []FailFastState /\ [][FailFastStep]_vars

\* the second program fails at submission: EXIT_FAILURE with the device,
\* both sinks and the instance never torn down
C5_Witness ==
    /\ exit = "exit_failure"
    /\ run = 2
    /\ calls[Len(calls)].op = "vkQueueSubmit"
    /\ {"instance", "device", "debugMessenger", "reportCallback"} \subseteq live

\* the teardown calls made for program k, in the order made
TeardownOf(k) ==
    Ops(SelectSeq(calls, LAMBDA c : c.run = k /\ c.op \in Range(TeardownOps)))

RunHandles ==
    {"shaderModule", "pipelineLayout", "pipeline", "commandPool", "commandBuffer"}

\* C6: the teardown calls of a program are always made in the order free
\* command buffer, destroy command pool, destroy pipeline, destroy pipeline
\* layout, destroy shader module; RunComputeShader returns success exactly
\* when every create, record, submit and wait call succeeded, and then its
\* last five calls were those five, in that order.
C6_TeardownOrder ==
    /\ \A k \in 1..2 : IsPrefix(TeardownOf(k), TeardownOps)
    /\ pc \in {"rcs_527", "rcs_528", "rcs_529", "rcs_530", "rcs_531"} =>
           result = VK_SUCCESS
    /\ pc = "rcs_return" =>
        /\ (result = VK_SUCCESS) = (TeardownOf(run) = TeardownOps)
        /\ (result = VK_SUCCESS) =
               (\E i \in CallsOf("vkQueueWaitIdle") :
                    calls[i].run = run /\ i = Len(calls) - Len(TeardownOps))
        /\ result = VK_SUCCESS =>
               /\ SubSeq(Ops(calls), Len(calls) - Len(TeardownOps) + 1, Len(calls))
                      = TeardownOps
               /\ live \cap RunHandles = {}

C6_Witness ==
    /\ pc = "rcs_return"
    /\ run = 2
    /\ result = VK_SUCCESS
    /\ TeardownOf(1) = TeardownOps
    /\ TeardownOf(2) = TeardownOps

\* C7: no destroy call is given a handle that is not live; the instance is
\* live while anything else is, and once it is destroyed nothing is live;
\* the device is live while a module, layout, pipeline, pool or command
\* buffer is; the pipeline only with its module and layout; the command
\* buffer only with its pool.  In every state, failed runs included.
C7_Lifetimes ==
    /\ ~badDestroy
    /\ live # {} => "instance" \in live
    /\ Called("vkDestroyInstance") => live = {}
    /\ live \cap RunHandles # {} => "device" \in live
    /\ "pipeline" \in live => {"shaderModule", "pipelineLayout"} \subseteq live
    /\ "commandBuffer" \in live => "commandPool" \in live

\* the process has exited on a failed wait with every handle still live
C7_Witness ==
    /\ exit = "exit_failure"
    /\ calls[Len(calls)].op = "vkQueueWaitIdle"
    /\ live = RunHandles \cup {"instance", "device", "debugMessenger", "reportCallback"}

\* the statements at which the driver is asked to enumerate devices, query
\* families, create the device, build, dispatch, tear down, destroy the device
EmittingPcs ==
    {"main_559", "main_562", "main_565", "rcs_434", "rcs_444", "rcs_459",
     "rcs_470", "rcs_483", "rcs_493", "rcs_499", "rcs_500", "rcs_501", "rcs_508",
     "rcs_515", "rcs_521", "rcs_527", "rcs_528", "rcs_529", "rcs_530", "rcs_531",
     "main_577"}

\* C8: device enumeration, the family query, device creation, every call of
\* RunComputeShader and device destruction execute with both sinks
\* registered; vkDestroyInstance executes with neither registered.
C8_SinksAround ==
    /\ pc \in EmittingPcs => {"debugMessenger", "reportCallback"} \subseteq live
    /\ pc = "main_582" =>
           live \cap {"debugMessenger", "reportCallback"} = {}

\* the instance is about to be destroyed after a complete run
C8_Witness ==
    /\ pc = "main_582"
    /\ Called("vkCreateDebugUtilsMessengerEXT")
    /\ Called("vkCreateDebugReportCallbackEXT")
    /\ Called("vkQueueWaitIdle")
    /\ live = {"instance"}

FamilyUses ==
    CallsOf("vkCreateDevice") \cup CallsOf("vkCreateCommandPool")
    \cup CallsOf("vkGetDeviceQueue")

\* C9: whenever the device has been created, a command pool created or a
\* queue fetched, the family index passed is the one index that the single
\* call of GetBestComputeQueue on physicalDevices[0] returned with success,
\* the same at every use, and the family it names has the COMPUTE bit.
C9_ComputeConfirmed ==
    (FamilyUses # {} \/ "device" \in live) =>
        /\ Cardinality(CallsOf("GetBestComputeQueue")) = 1
        /\ \A i \in CallsOf("GetBestComputeQueue") : calls[i].arg[1] = 0
        /\ queueFamilyProperties = "allocated"
        /\ queueFamilyIndex \in ComputeFamilies(families)
        /\ \A i \in FamilyUses : calls[i].arg[1] = queueFamilyIndex

\* family 1 of [{GRAPHICS}, {COMPUTE}] was selected and used three times
C9_Witness ==
    /\ families = <<VK_QUEUE_GRAPHICS_BIT, VK_QUEUE_COMPUTE_BIT>>
    /\ queueFamilyIndex = 1
    /\ Called("vkCreateDevice")
    /\ Called("vkCreateCommandPool")
    /\ Called("vkGetDeviceQueue")

(***************************************************************************)
(* Failure paths, registration, recording, enumeration.                    *)
(***************************************************************************)
\* C13: when a step of RunComputeShader has failed (on a device that was
\* enumerated), the process does not end with a shader module, pipeline
\* layout, pipeline, command pool or command buffer of that run still
\* unreleased: main releases them first.
C13_CleanupOnFailure ==
    (pc = "ended" /\ run >= 1 /\ Failed /\ physicalDevice0 = "valid") =>
        live \cap RunHandles = {}

RegisterFunctions == {"CreateDebugMessenger", "CreateReportCallback"}

CreateEntryPoint ==
    [CreateDebugMessenger |-> "vkCreateDebugUtilsMessengerEXT",
     CreateReportCallback |-> "vkCreateDebugReportCallbackEXT"]

\* the lookups made to register a sink; a lookup that the call of its
\* entry point does not follow returned null
CreateLookups ==
    {i \in CallsOf("vkGetInstanceProcAddr") : calls[i - 1].op \in RegisterFunctions}

\* C14: each registration looks its create entry point up by name; when
\* the lookup returns null nothing is called through it, the result is
\* VK_ERROR_EXTENSION_NOT_PRESENT and the process ends with
\* exit(EXIT_FAILURE) before any device is enumerated; devices are
\* enumerated only after both entry points were resolved and called.
C14_UnresolvedCreateFatal ==
    /\ \A i \in CallsOf("CreateDebugMessenger") \cup CallsOf("CreateReportCallback") :
           i + 1 \in CreateLookups
    /\ \A i \in CreateLookups :
        \/ /\ i < Len(calls)
           /\ calls[i + 1].op = CreateEntryPoint[calls[i - 1].op]
        \/ /\ i = Len(calls)
           /\ result = VK_ERROR_EXTENSION_NOT_PRESENT
           /\ pc = "ended"
           /\ exit = "exit_failure"
           /\ ~Called("EnumerateDevices")
           /\ ~Called("vkEnumeratePhysicalDevices")
           /\ live \subseteq {"instance", "debugMessenger"}
    /\ result = VK_ERROR_EXTENSION_NOT_PRESENT =>
           CreateLookups # {} /\ Len(calls) \in CreateLookups
    /\ Called("EnumerateDevices") =>
           /\ Called("vkCreateDebugUtilsMessengerEXT")
           /\ Called("vkCreateDebugReportCallbackEXT")

\* the second sink's entry point is missing: EXIT_FAILURE with the first
\* sink registered and no device enumerated
C14_Witness ==
    /\ exit = "exit_failure"
    /\ result = VK_ERROR_EXTENSION_NOT_PRESENT
    /\ calls[Len(calls) - 1].op = "CreateReportCallback"
    /\ calls[Len(calls)].op = "vkGetInstanceProcAddr"
    /\ live = {"instance", "debugMessenger"}

\* C15: unregistering a sink calls nothing through a null pointer and ends
\* without an error, also when the destroy entry point is not resolved: the
\* process goes on to vkDestroyInstance and return code 0.
C15_SilentTeardown ==
    /\ ~Called("nullptr")
    /\ Called("DestroyDebugMessenger") => exit \in {"running", "return_0"}

\* the calls of program k from the entry into RunComputeShader on
RunCalls(k) == SelectSeq(calls, LAMBDA c : c.run = k /\ c.op # "readFile")

\* the handle each creating step makes
CreatedHandle ==
    [vkCreateShaderModule |-> "shaderModule",
     vkCreatePipelineLayout |-> "pipelineLayout",
     vkCreateComputePipelines |-> "pipeline",
     vkCreateCommandPool |-> "commandPool",
     vkAllocateCommandBuffers |-> "commandBuffer"]

\* the steps of RunComputeShader whose result is tested
FailableOps ==
    DOMAIN CreatedHandle
    \cup {"vkBeginCommandBuffer", "vkEndCommandBuffer", "vkQueueSubmit",
          "vkQueueWaitIdle"}

\* the handles made by all calls of s but the last
CreatedBeforeLast(s) ==
    {CreatedHandle[s[i].op] :
        i \in {j \in 1..(Len(s) - 1) : s[j].op \in DOMAIN CreatedHandle}}

\* C16: when RunComputeShader returns a result other than success, the last
\* call made is the first of its tested steps that failed, the result
\* returned is the one that step returned, the calls of the run are an
\* initial part of the build and dispatch sequence ending at that step, no
\* teardown call was made, and exactly the handles created before that step
\* are live.
C16_FirstFailureReturns ==
    (pc = "rcs_return" /\ result # VK_SUCCESS) =>
        LET rc == RunCalls(run) IN
        /\ Len(rc) >= 2
        /\ rc[Len(rc)] = calls[Len(calls)]
        /\ IsPrefix(Ops(rc), Tail(BuildDispatchOps))
        /\ rc[Len(rc)].op \in FailableOps
        /\ rc[Len(rc)].ret = result
        /\ \A i \in 1..(Len(rc) - 1) :
               rc[i].op \in FailableOps => rc[i].ret = VK_SUCCESS
        /\ TeardownOf(run) = <<>>
        /\ live \cap RunHandles = CreatedBeforeLast(rc)

\* the first program's wait fails with 'device lost': returned as it is,
\* all five handles live
C16_Witness ==
    /\ pc = "rcs_return"
    /\ run = 1
    /\ result = VK_ERROR_DEVICE_LOST
    /\ calls[Len(calls)].op = "vkQueueWaitIdle"
    /\ TeardownOf(1) = <<>>
    /\ RunHandles \subseteq live

RecordingOps ==
    <<"vkBeginCommandBuffer", "vkCmdBindPipeline", "vkCmdDispatch",
      "vkEndCommandBuffer", "vkQueueSubmit">>

\* the recording and submission calls of program k, in the order made
RecordingOf(k) ==
    Ops(SelectSeq(calls, LAMBDA c : c.run = k /\ c.op \in Range(RecordingOps)))

Submitted(k) == \E i \in CallsOf("vkQueueSubmit") : calls[i].run = k

\* C17: the recording and submission calls of a program are always an
\* initial part of begin, bind, dispatch, end, submit, and the whole of it
\* once the program was submitted; bind and dispatch are issued with the
\* command buffer recording; every dispatch has the counts (512, 1, 1),
\* whatever the size of the program's file; the queue fetched is queue 0 of
\* the selected family.
C17_DispatchProtocol ==
    /\ \A k \in 1..2 :
        /\ IsPrefix(RecordingOf(k), RecordingOps)
        /\ Submitted(k) => RecordingOf(k) = RecordingOps
    /\ pc \in {"rcs_499", "rcs_500", "rcs_501"} => commandBufferState = "recording"
    /\ pc = "rcs_515" => commandBufferState = "executable"
    /\ \A i \in CallsOf("vkCmdDispatch") : calls[i].arg = <<512, 1, 1>>
    /\ \A i \in CallsOf("vkGetDeviceQueue") :
        /\ calls[i].arg = <<queueFamilyIndex, 0>>
        /\ i < Len(calls) => calls[i + 1].op = "vkQueueSubmit"

\* a file of 4 bytes and a file of 8 bytes were both dispatched and submitted
C17_Witness ==
    /\ Submitted(1)
    /\ Submitted(2)
    /\ \E i, j \in CallsOf("readFile") :
        /\ calls[i].run = 1 /\ calls[i].arg = <<4>>
        /\ calls[j].run = 2 /\ calls[j].arg = <<8>>
    /\ Cardinality(CallsOf("vkCmdDispatch")) = 2

\* C18: at most one submission is pending; a successful submission is
\* followed by vkQueueWaitIdle of the same program and by nothing else, and
\* anything is called after that wait only when it returned success;
\* teardown and device destruction run with nothing pending; the second
\* program is begun only with the first one's teardown complete.
C18_WaitIdleBarrier ==
    /\ pending \in {0, 1}
    /\ pending = 1 =>
        \/ pc = "rcs_521" /\ calls[Len(calls)].op = "vkQueueSubmit"
        \/ /\ pc \in {"rcs_return", "ended"}
           /\ calls[Len(calls)].op = "vkQueueWaitIdle"
           /\ calls[Len(calls)].ret # VK_SUCCESS
    /\ \A i \in CallsOf("vkQueueSubmit") :
        (calls[i].ret = VK_SUCCESS /\ i < Len(calls)) =>
            /\ calls[i + 1].op = "vkQueueWaitIdle"
            /\ calls[i + 1].run = calls[i].run
            /\ i + 1 < Len(calls) => calls[i + 1].ret = VK_SUCCESS
    /\ pc \in {"rcs_527", "rcs_528", "rcs_529", "rcs_530", "rcs_531", "main_577"} =>
           pending = 0
    /\ (\E i \in 1..Len(calls) : calls[i].run = 2) =>
           TeardownOf(1) = TeardownOps
    /\ (run = 2 /\ pc = "rcs_434") => live \cap RunHandles = {}

\* the second program is submitted and not yet waited for, the first one
\* torn down
C18_Witness ==
    /\ pc = "rcs_521"
    /\ run = 2
    /\ pending = 1
    /\ commandBufferState = "pending"
    /\ TeardownOf(1) = TeardownOps

\* C19: element 0 of the device array is read only when the enumeration
\* returned at least one device; after an enumeration that succeeded with
\* no device the process ends with exit(EXIT_FAILURE) and neither
\* GetBestComputeQueue nor vkCreateDevice is called.
C19_NoEmptyRead ==
    /\ physicalDevice0 \in {"unread", "valid"}
    /\ (Called("GetBestComputeQueue") \/ Called("vkCreateDevice")) =>
           physicalDeviceCount >= 1
    /\ (Cardinality(CallsOf("vkEnumeratePhysicalDevices")) = 2
        /\ physicalDeviceCount = 0) =>
           \/ pc = "main_562"
           \/ pc = "ended" /\ exit = "exit_failure"

\* C20: EnumerateDevices is called once and asks the driver at most twice;
\* it returns what its last query returned; a failed count query leaves the
\* device array null and is the only query; a result other than success
\* ends the process with exit(EXIT_FAILURE) before GetBestComputeQueue; an
\* enumeration of no device returns success and main goes on.
C20_EnumerateOnce ==
    LET queries == CallsOf("vkEnumeratePhysicalDevices") IN
    /\ Cardinality(CallsOf("EnumerateDevices")) <= 1
    /\ Cardinality(queries) <= 2
    /\ Cardinality(queries) = 1 =>
        /\ calls[Len(calls)].op = "vkEnumeratePhysicalDevices"
        /\ calls[Len(calls)].ret # VK_SUCCESS
        /\ physicalDevices = "nullptr"
        /\ physicalDeviceCount = 0
    /\ (queries # {} /\ Len(calls) \in queries) =>
        /\ result = calls[Len(calls)].ret
        /\ calls[Len(calls) - Cardinality(queries)].op = "EnumerateDevices"
        /\ IF result = VK_SUCCESS
           THEN exit # "exit_failure" /\ pc \in {"main_562", "ended"}
           ELSE pc = "ended" /\ exit = "exit_failure"
    /\ Called("GetBestComputeQueue") =>
        /\ Cardinality(queries) = 2
        /\ \A i \in queries : calls[i].ret = VK_SUCCESS

\* the driver reported no device: EnumerateDevices returned success and
\* main is at its next statement
C20_Witness ==
    /\ pc = "main_562"
    /\ exit = "running"
    /\ physicalDeviceCount = 0
    /\ physicalDevices = "allocated"
    /\ result = VK_SUCCESS

(***************************************************************************)
(* The callbacks beside main; the handles at return code 0.                *)
(***************************************************************************)
SinkIndependence ==
    /\ exit = "running" => ENABLED Next
    /\ \A t \in SinkThreads :
        (exit = "running" /\ inFlight[t] # NoInvocation) => ENABLED SinkReturn(t)
    /\ \A t \in SinkThreads :
        inFlight[t] # NoInvocation => inFlight[t] \in AsyncMessages
    /\ sinkCall # NoInvocation =>
        /\ sinkOut = SinkBody(sinkCall).out
        /\ sinkRet = VK_FALSE

\* C21: with the driver calling the callbacks from its own threads at any
\* point while a sink is registered, two at once included, every step that
\* changes the state of main (its position, its calls, the live handles,
\* the exit code, every variable of main) is a step of main as it runs
\* without any callback, and a callback step changes none of it; main can
\* take its next step whatever invocations are in progress; an invocation
\* in progress can always return; what it writes and returns depends on its
\* arguments alone.
C21_SinksAsInterrupts == []SinkIndependence /\ [][Next]_mainVars

\* main has passed the wait and begun the teardown of the second program
\* while two invocations of VulkanDebugCallback are in progress
C21_Witness ==
    /\ pc = "rcs_527"
    /\ run = 2
    /\ delivered = 2
    /\ \A t \in SinkThreads : inFlight[t].sink = "VulkanDebugCallback"
    /\ exit = "running"

\* the creating and the destroying call of each handle of main
MainHandleOps ==
    {<<"vkCreateInstance", "vkDestroyInstance">>,
     <<"vkCreateDebugUtilsMessengerEXT", "vkDestroyDebugUtilsMessengerEXT">>,
     <<"vkCreateDebugReportCallbackEXT", "vkDestroyDebugReportCallbackEXT">>,
     <<"vkCreateDevice", "vkDestroyDevice">>}

\* the creating and the destroying call of each handle of a program
RunHandleOps ==
    {<<"vkCreateShaderModule", "vkDestroyShaderModule">>,
     <<"vkCreatePipelineLayout", "vkDestroyPipelineLayout">>,
     <<"vkCreateComputePipelines", "vkDestroyPipeline">>,
     <<"vkCreateCommandPool", "vkDestroyCommandPool">>,
     <<"vkAllocateCommandBuffers", "vkFreeCommandBuffers">>}

CallsIn(op, k) == {i \in CallsOf(op) : calls[i].run = k}

\* one creating call, one destroying call, in that order
PairedOnce(created, destroyed) ==
    /\ Cardinality(created) = 1
    /\ Cardinality(destroyed) = 1
    /\ \A i \in created, j \in destroyed : i < j

\* C22: at return code 0 no handle is live, no destroy call was given a
\* handle that was not live, and the instance, both sinks, the device and,
\* for each program, the shader module, pipeline layout, pipeline, command
\* pool and command buffer were each created once and destroyed once after
\* that; in every state no handle kind has more destroy calls than create
\* calls, and every create call of the second program comes after all five
\* destroy calls of the first.
C22_NoLeak ==
    /\ exit = "return_0" =>
        /\ live = {}
        /\ ~badDestroy
        /\ \A p \in MainHandleOps : PairedOnce(CallsOf(p[1]), CallsOf(p[2]))
        /\ \A k \in 1..2 : \A p \in RunHandleOps :
               PairedOnce(CallsIn(p[1], k), CallsIn(p[2], k))
    /\ \A p \in MainHandleOps \cup RunHandleOps :
           Cardinality(CallsOf(p[2])) <= Cardinality(CallsOf(p[1]))
    /\ \A p \in RunHandleOps : \A i \in CallsIn(p[1], 2) :
           \A q \in RunHandleOps :
               /\ CallsIn(q[2], 1) # {}
               /\ \A j \in CallsIn(q[2], 1) : j < i

\* return code 0 after both programs, each handle released
C22_Witness ==
    /\ exit = "return_0"
    /\ Cardinality(CallsOf("vkDestroyShaderModule")) = 2
    /\ Cardinality(CallsOf("vkFreeCommandBuffers")) = 2
    /\ Called("vkDestroyDevice")
    /\ Called("vkDestroyInstance")
    /\ ~badDestroy

====
